---- MODULE Spec2Model ----
(***************************************************************************)
(* Model of the medical-diagnosis pipeline: the query builder, the PubMed  *)
(* client (ID search, record fetch, XML parsing), the summarizer and the   *)
(* three delivery surfaces that orchestrate them (app.py, mcp_tool.py,     *)
(* streamlit_app.py).                                                      *)
(*                                                                         *)
(* Text is modelled as a sequence of pieces (string literals and the       *)
(* interpolated values of an f-string, in order), so that a formatted      *)
(* string can be taken apart again.  The raw user input is a sequence of   *)
(* characters, so that strip() is computed.                                *)
(***************************************************************************)
EXTENDS Integers, Sequences, FiniteSets, TLC

VARIABLES qry, prs, summ, srch, req, conc

vars == <<qry, prs, summ, srch, req, conc>>

\* ------------------------------------------------------------------------
\* Bounds of the model
\* ------------------------------------------------------------------------
MaxQuerySymptoms == 4
MaxQueryConditions == 3
MaxCalls == 2
MaxRecords == 2
MaxSummaryArticles == 2
MaxIds == 2
MaxFetchRecords == 1
MaxTextLen == 2
MaxSymptoms == 2
MaxConditions == 1
MaxAuthors == 4
MaxRequests == 2

\* ------------------------------------------------------------------------
\* Generic helpers
\* ------------------------------------------------------------------------
Min(a, b) == IF a < b THEN a ELSE b

\* xs[:n]
Take(xs, n) == SubSeq(xs, 1, Min(n, Len(xs)))

\* All sequences over S of length 0..n
SeqsUpTo(S, n) == UNION {[1..k -> S] : k \in 0..n}

\* sep.join(parts), every part and the result being a sequence of pieces
RECURSIVE Join(_, _)
Join(parts, sep) ==
    IF parts = <<>> THEN <<>>
    ELSE IF Len(parts) = 1 THEN parts[1]
    ELSE parts[1] \o <<sep>> \o Join(Tail(parts), sep)

\* Python truthiness of a string given as pieces: some piece is non-empty
NonEmptyText(pieces) == \E i \in DOMAIN pieces : pieces[i] # ""

\* An optional value: <<>> is None, <<v>> is the value v
None == <<>>
Some(v) == <<v>>

\* ------------------------------------------------------------------------
\* Query building
\* ------------------------------------------------------------------------
SymptomLimit == 3
DefaultMaxResults == 5
ConditionLimit == 2
DashSymptomLimit == 3
DashConditionLimit == 2

EvidenceFilter == " AND (review[pt] OR clinical trial[pt] OR meta-analysis[pt])"

\* f'"{x}"[Title/Abstract]'
QuotedTerm(x) == <<"\"", x, "\"[Title/Abstract]">>

\* Python truthiness of the conditions argument: neither None nor an empty list
ConditionsGiven(conditions) == conditions # None /\ conditions[1] # <<>>

\* A variant that truncates the caller's list in place instead of slicing it
build_search_query_inplace(self, symptoms, conditions) ==
    LET syms == Take(symptoms, SymptomLimit)
        terms == [i \in 1..Len(syms) |-> QuotedTerm(syms[i])]
                 \o (IF ConditionsGiven(conditions)
                     THEN LET cs == Take(conditions[1], ConditionLimit)
                          IN [i \in 1..Len(cs) |-> QuotedTerm(cs[i])]
                     ELSE <<>>)
    IN [query |-> Join(terms, " OR ") \o <<EvidenceFilter>>,
        symptoms |-> syms, conditions |-> conditions, self |-> self]

\* A variant whose symptom slice is one short
build_search_query_short(self, symptoms, conditions) ==
    LET syms == Take(symptoms, SymptomLimit - 1)
        terms == [i \in 1..Len(syms) |-> QuotedTerm(syms[i])]
                 \o (IF ConditionsGiven(conditions)
                     THEN LET cs == Take(conditions[1], ConditionLimit)
                          IN [i \in 1..Len(cs) |-> QuotedTerm(cs[i])]
                     ELSE <<>>)
    IN [query |-> Join(terms, " OR ") \o <<EvidenceFilter>>,
        symptoms |-> symptoms, conditions |-> conditions, self |-> self]

\* PubMedSearch.build_search_query.  The result carries the query and the
\* state of the (mutable) arguments and of the client after the call.
build_search_query(self, symptoms, conditions) ==
    LET syms == Take(symptoms, SymptomLimit)
        terms == [i \in 1..Len(syms) |-> QuotedTerm(syms[i])]
                 \o (IF ConditionsGiven(conditions)
                     THEN LET cs == Take(conditions[1], ConditionLimit)
                          IN [i \in 1..Len(cs) |-> QuotedTerm(cs[i])]
                     ELSE <<>>)
    IN [query |-> Join(terms, " OR ") \o <<EvidenceFilter>>,
        symptoms |-> symptoms, conditions |-> conditions, self |-> self]

\* A dashboard builder that takes every condition
dash_build_search_query_all_conditions(self, symptoms, conditions) ==
    LET syms == Take(symptoms, DashSymptomLimit)
        terms == [i \in 1..Len(syms) |-> QuotedTerm(syms[i])]
                 \o (IF ConditionsGiven(conditions)
                     THEN [i \in 1..Len(conditions[1]) |-> QuotedTerm(conditions[1][i])]
                     ELSE <<>>)
    IN [query |-> Join(terms, " OR ") \o <<EvidenceFilter>>,
        symptoms |-> symptoms, conditions |-> conditions, self |-> self]

\* build_search_query of the dashboard (a module-level function: self is the
\* caller's client record, which it never sees)
dash_build_search_query(self, symptoms, conditions) ==
    LET syms == Take(symptoms, DashSymptomLimit)
        terms == [i \in 1..Len(syms) |-> QuotedTerm(syms[i])]
                 \o (IF ConditionsGiven(conditions)
                     THEN LET cs == Take(conditions[1], DashConditionLimit)
                          IN [i \in 1..Len(cs) |-> QuotedTerm(cs[i])]
                     ELSE <<>>)
    IN [query |-> Join(terms, " OR ") \o <<EvidenceFilter>>,
        symptoms |-> symptoms, conditions |-> conditions, self |-> self]

\* PubMedSearch.__init__: the client's state, read from the configuration
ApiKeys == {"", "KEY"}
PubMedClient(api_key) ==
    [base_url |-> "https://eutils.ncbi.nlm.nih.gov/entrez/eutils/",
     api_key |-> api_key]

\* PubMedSearch._build_params: adds the key to the caller's dict, in place.
\* A params dict is a record whose api_key is None while the key is not set.
build_params(self, params) ==
    IF self.api_key # "" THEN [params EXCEPT !.api_key = Some(self.api_key)]
    ELSE params

\* The params dict literal of the ID search (retmax is str(max_results))
EsearchParams(query, max_results) ==
    [db |-> "pubmed", term |-> query, retmax |-> max_results,
     retmode |-> "json", sort |-> "relevance", api_key |-> None]

\* The params dict literal of the record fetch
FetchParams(ids) ==
    [db |-> "pubmed", id |-> ids, retmode |-> "xml", rettype |-> "abstract",
     api_key |-> None]

SymptomNames == {"fever", "cough"}
ConditionNames == {"flu", "cold"}
Builders == {"client", "dash"}

QueryIdle ==
    [pc |-> "off", impl |-> "client", self |-> PubMedClient(""),
     self0 |-> PubMedClient(""), symptoms0 |-> <<>>, conditions0 |-> None,
     symptoms |-> <<>>, conditions |-> None,
     results |-> <<>>, params |-> EsearchParams(<<>>, 0)]

QueryInputs ==
    {[QueryIdle EXCEPT !.pc = "ready", !.impl = b, !.self = PubMedClient(k),
                       !.self0 = PubMedClient(k), !.symptoms0 = s, !.conditions0 = c,
                       !.symptoms = s, !.conditions = c] :
        b \in Builders, k \in ApiKeys,
        s \in SeqsUpTo(SymptomNames, MaxQuerySymptoms),
        c \in {None} \cup {Some(x) : x \in SeqsUpTo(ConditionNames, MaxQueryConditions)}}

BuilderResult(q) ==
    IF q.impl = "client" THEN build_search_query(q.self, q.symptoms, q.conditions)
    ELSE dash_build_search_query(q.self, q.symptoms, q.conditions)

\* One call of the query builder on the caller's lists
QBuild ==
    /\ qry.pc = "ready"
    /\ Len(qry.results) < MaxCalls
    /\ LET r == BuilderResult(qry)
       IN qry' = [qry EXCEPT !.results = Append(@, r.query),
                             !.symptoms = r.symptoms,
                             !.conditions = r.conditions,
                             !.self = r.self]
    /\ UNCHANGED <<prs, summ, srch, req, conc>>

\* Another operation of the client between two calls of the builder
QBuildParams ==
    /\ qry.pc = "ready"
    /\ \E term \in {<<"q1">>, <<"q2">>} :
         qry' = [qry EXCEPT !.params =
                    build_params(qry.self, EsearchParams(term, DefaultMaxResults))]
    /\ qry.params' # qry.params
    /\ UNCHANGED <<prs, summ, srch, req, conc>>

\* ------------------------------------------------------------------------
\* XML parsing
\* ------------------------------------------------------------------------
\* A fetched document is malformed, or a tree with one node per record under
\* the root.  An element of a record is None (absent) or Some(text), text
\* being "" for an element without text.  Year and MedlineDate texts are
\* sequences of characters.  An author node holds an optional LastName and
\* an optional Initials element.
AuthorLimit == 3

\* elem.text or ""  for an element that may be absent
TextOrEmpty(elem) == IF elem # None THEN elem[1] ELSE ""
CharsOrEmpty(elem) == IF elem # None THEN elem[1] ELSE <<>>

\* ET.fromstring: the root's record nodes, or ParseError
ET_fromstring(doc) ==
    IF doc.malformed THEN [raises |-> "ParseError", nodes |-> <<>>]
    ELSE [raises |-> "", nodes |-> doc.nodes]

\* The year of a record node: Year, else the first 4 characters of MedlineDate
NodeYear(node) ==
    IF node.year # None THEN CharsOrEmpty(node.year)
    ELSE IF node.medline # None /\ node.medline[1] # <<>>
         THEN Take(node.medline[1], 4)
         ELSE <<>>

\* The authors of the first 3 author nodes only
NodeAuthorsOfFirstNodes(authorNodes) ==
    LET firstNodes == SubSeq(authorNodes, 1, Min(AuthorLimit, Len(authorNodes)))
        named == SelectSeq(firstNodes, LAMBDA a : a.last # None /\ a.last[1] # "")
    IN [i \in 1..Len(named) |->
          <<named[i].last[1]>> \o (IF named[i].initials # None /\ named[i].initials[1] # ""
                                   THEN <<" ", named[i].initials[1]>> ELSE <<>>)]

\* The authors of a record node, before truncation
RECURSIVE NodeAuthors(_)
NodeAuthors(authorNodes) ==
    IF authorNodes = <<>> THEN <<>>
    ELSE LET a == Head(authorNodes)
         IN (IF a.last # None /\ a.last[1] # ""
             THEN << <<a.last[1]>> \o (IF a.initials # None /\ a.initials[1] # ""
                                        THEN <<" ", a.initials[1]>> ELSE <<>>) >>
             ELSE <<>>)
            \o NodeAuthors(Tail(authorNodes))

\* The loop body of _parse_articles that keeps a node whatever it lacks
ParseNodeKeepAll(node) ==
    << [pmid |-> TextOrEmpty(node.pmid), title |-> TextOrEmpty(node.title),
        abstract |-> TextOrEmpty(node.abstract), year |-> NodeYear(node),
        authors |-> Take(NodeAuthors(node.authors), AuthorLimit)] >>

\* The loop body of _parse_articles: zero or one article for a record node
ParseNode(node) ==
    LET pmid == TextOrEmpty(node.pmid)
        title == TextOrEmpty(node.title)
    IN IF pmid # "" /\ title # ""
       THEN << [pmid |-> pmid, title |-> title,
                abstract |-> TextOrEmpty(node.abstract),
                year |-> NodeYear(node),
                authors |-> Take(NodeAuthors(node.authors), AuthorLimit)] >>
       ELSE <<>>

RECURSIVE ParseNodes(_)
ParseNodes(nodes) ==
    IF nodes = <<>> THEN <<>>
    ELSE ParseNode(Head(nodes)) \o ParseNodes(Tail(nodes))

\* _parse_articles without its "except ET.ParseError: pass"
parse_articles_no_except(doc) ==
    LET root == ET_fromstring(doc)
    IN [raises |-> root.raises, articles |-> ParseNodes(root.nodes)]

\* PubMedSearch._parse_articles: ParseError is swallowed
parse_articles(doc) ==
    LET root == ET_fromstring(doc)
    IN IF root.raises = "ParseError" THEN [raises |-> "", articles |-> <<>>]
       ELSE [raises |-> "", articles |-> ParseNodes(root.nodes)]

\* The dashboard's loop body: findtext with a default of "", Year only, and
\* no authors (the article dict has no such key; the field is kept empty)
DashParseNode(node) ==
    LET pmid == TextOrEmpty(node.pmid)
        title == TextOrEmpty(node.title)
    IN IF pmid # "" /\ title # ""
       THEN << [pmid |-> pmid, title |-> title,
                abstract |-> TextOrEmpty(node.abstract),
                year |-> CharsOrEmpty(node.year),
                authors |-> <<>>] >>
       ELSE <<>>

RECURSIVE DashParseNodes(_)
DashParseNodes(nodes) ==
    IF nodes = <<>> THEN <<>>
    ELSE DashParseNode(Head(nodes)) \o DashParseNodes(Tail(nodes))

\* The parsing part of the dashboard's search_pubmed: ParseError reaches the
\* function's own except clause, which returns []
dash_parse_articles(doc) ==
    LET root == ET_fromstring(doc)
    IN IF root.raises # "" THEN [raises |-> "", articles |-> <<>>]
       ELSE [raises |-> "", articles |-> DashParseNodes(root.nodes)]

\* ------------------------------------------------------------------------
\* Summarizer
\* ------------------------------------------------------------------------
\* A call of the generation service answers with a completion or raises.
\* resp = [ok, content, err].
NoSummary == [articles_found |-> 0, summary |-> "", references |-> <<>>]

\* f"https://pubmed.ncbi.nlm.nih.gov/{pmid}/"
ArticleUrl(pmid) == <<"https://pubmed.ncbi.nlm.nih.gov/", pmid, "/">>

\* References built from the articles that went into the prompt only
ReferencesOfAbstracts(articles) ==
    LET used == SelectSeq(articles, LAMBDA a : a.abstract # "")
    IN [i \in 1..Len(used) |->
          [title |-> used[i].title, pmid |-> used[i].pmid,
           year |-> used[i].year, url |-> ArticleUrl(used[i].pmid)]]

\* The references of summarize: one per article
References(articles) ==
    [i \in 1..Len(articles) |->
        [title |-> articles[i].title, pmid |-> articles[i].pmid,
         year |-> articles[i].year, url |-> ArticleUrl(articles[i].pmid)]]

\* The entries of the prompt context: one per article with an abstract
RECURSIVE AbstractEntries(_, _)
AbstractEntries(articles, fallback) ==
    IF articles = <<>> THEN <<>>
    ELSE LET a == Head(articles)
         IN (IF a.abstract # ""
             THEN << <<"Title: ", a.title, "\nAbstract: ",
                       IF a.abstract # "" THEN a.abstract ELSE fallback>> >>
             ELSE <<>>)
            \o AbstractEntries(Tail(articles), fallback)

NoAbstractsNote == "No abstracts available for the found articles."
NoLiterature == "No relevant medical literature found for these symptoms."
DashNoLiterature == "No relevant medical literature found."

SummarizerIdle ==
    [pc |-> "off", impl |-> "async", articles |-> <<>>, symptoms |-> <<>>,
     conditions |-> <<>>, abstracts |-> <<>>, generations |-> 0,
     summary |-> NoSummary, raised |-> ""]

\* A summarize that has no short circuit for an empty list
summarize_begin_always_generates(articles, symptoms, conditions) ==
    LET text == Join(AbstractEntries(articles, "No abstract available"), "\n\n")
    IN [SummarizerIdle EXCEPT
          !.pc = "generate", !.impl = "async", !.articles = articles,
          !.symptoms = symptoms, !.conditions = conditions,
          !.abstracts = IF NonEmptyText(text) THEN text ELSE <<NoAbstractsNote>>,
          !.generations = 1]

\* Summarizer.summarize up to its await: the short circuit, or the prompt
\* context and the generation call
summarize_begin(articles, symptoms, conditions) ==
    IF articles = <<>>
    THEN [SummarizerIdle EXCEPT
            !.pc = "done", !.impl = "async", !.symptoms = symptoms,
            !.conditions = conditions,
            !.summary = [articles_found |-> 0, summary |-> NoLiterature,
                         references |-> <<>>]]
    ELSE LET text == Join(AbstractEntries(articles, "No abstract available"), "\n\n")
         IN [SummarizerIdle EXCEPT
               !.pc = "generate", !.impl = "async", !.articles = articles,
               !.symptoms = symptoms, !.conditions = conditions,
               !.abstracts = IF NonEmptyText(text) THEN text ELSE <<NoAbstractsNote>>,
               !.generations = 1]

\* Summarizer.summarize after its await
summarize_end(s, resp) ==
    IF ~resp.ok THEN [s EXCEPT !.pc = "raised", !.raised = resp.err]
    ELSE [s EXCEPT !.pc = "done",
                   !.summary = [articles_found |-> Len(s.articles),
                                summary |-> resp.content,
                                references |-> References(s.articles)]]

\* Summarizer.summarize_sync up to the generation call
summarize_sync_begin(articles, symptoms, conditions) ==
    IF articles = <<>>
    THEN [SummarizerIdle EXCEPT
            !.pc = "done", !.impl = "sync", !.symptoms = symptoms,
            !.conditions = conditions,
            !.summary = [articles_found |-> 0, summary |-> NoLiterature,
                         references |-> <<>>]]
    ELSE LET text == Join(AbstractEntries(articles, "No abstract available"), "\n\n")
         IN [SummarizerIdle EXCEPT
               !.pc = "generate", !.impl = "sync", !.articles = articles,
               !.symptoms = symptoms, !.conditions = conditions,
               !.abstracts = IF NonEmptyText(text) THEN text ELSE <<NoAbstractsNote>>,
               !.generations = 1]

\* Summarizer.summarize_sync after the generation call
summarize_sync_end(s, resp) ==
    IF ~resp.ok THEN [s EXCEPT !.pc = "raised", !.raised = resp.err]
    ELSE [s EXCEPT !.pc = "done",
                   !.summary = [articles_found |-> Len(s.articles),
                                summary |-> resp.content,
                                references |-> References(s.articles)]]

\* Step 4 of the dashboard up to the generation call.  What it renders is
\* kept as a summary: len(articles), summary_text and one reference per
\* article (the "View References" expander).
dash_summarize_begin(articles, symptoms, conditions) ==
    LET text == Join(AbstractEntries(articles, "No abstract"), "\n\n")
        base == [SummarizerIdle EXCEPT
                   !.impl = "dash", !.articles = articles,
                   !.symptoms = symptoms, !.conditions = conditions,
                   !.summary = [articles_found |-> Len(articles),
                                summary |-> DashNoLiterature,
                                references |-> References(articles)]]
    IN IF articles # <<>> /\ NonEmptyText(text)
       THEN [base EXCEPT !.pc = "generate", !.abstracts = text, !.generations = 1]
       ELSE [base EXCEPT !.pc = "done"]

\* Step 4 of the dashboard after the generation call
dash_summarize_end(s, resp) ==
    IF ~resp.ok THEN [s EXCEPT !.pc = "raised", !.raised = resp.err]
    ELSE [s EXCEPT !.pc = "done", !.summary.summary = resp.content]

SummarizerBegin(impl, articles, symptoms, conditions) ==
    CASE impl = "async" -> summarize_begin(articles, symptoms, conditions)
      [] impl = "sync" -> summarize_sync_begin(articles, symptoms, conditions)
      [] OTHER -> dash_summarize_begin(articles, symptoms, conditions)

SummarizerEnd(s, resp) ==
    CASE s.impl = "async" -> summarize_end(s, resp)
      [] s.impl = "sync" -> summarize_sync_end(s, resp)
      [] OTHER -> dash_summarize_end(s, resp)

ErrorTexts == {"timeout", "401 invalid key"}
Completions == {"Summary text."}
GenerationResponses ==
    {[ok |-> TRUE, content |-> c, err |-> ""] : c \in Completions}
    \cup {[ok |-> FALSE, content |-> "", err |-> e] : e \in ErrorTexts}

\* ------------------------------------------------------------------------
\* Literature search: ID search, then record fetch
\* ------------------------------------------------------------------------
\* The answer to the ID search: resp = [kind, err, data].  kind is
\* "transport_error" (the GET raises), "not_json" (the body does not decode)
\* or "json"; data is the decoded body: None when it has no "esearchresult",
\* Some(None) when that has no "idlist", Some(Some(ids)) otherwise.
\* The answer to the fetch: resp = [kind, err, doc], kind "transport_error"
\* or "text"; fetch_response is None, or Some(the document received).  A session's fault is the error of the call that raised, if
\* one did; raised is the error that left the function.
SearchIdle ==
    [pc |-> "off", impl |-> "async", self |-> PubMedClient(""), query |-> <<>>,
     params |-> EsearchParams(<<>>, 0), fetch_params |-> FetchParams(<<>>),
     calls |-> <<>>, id_list |-> <<>>, fetch_response |-> None,
     articles |-> <<>>, fault |-> "", raised |-> ""]

\* search_data.get("esearchresult", {}).get("idlist", [])
IdListOf(data) ==
    IF data = None THEN <<>>
    ELSE IF data[1] = None THEN <<>>
    ELSE data[1][1]

\* The dashboard passes its dict literals as they are; the client passes
\* them through _build_params
BuildParamsFor(s, params) ==
    IF s.impl = "dash" THEN params ELSE build_params(s.self, params)

\* The ID list taken without the emptiness test that follows it
SearchAfterIdsAlwaysFetch(s, id_list) ==
    [s EXCEPT !.pc = "efetch", !.id_list = id_list,
              !.fetch_params =
                 BuildParamsFor(s, FetchParams(
                     Join([i \in 1..Len(id_list) |-> <<id_list[i]>>], ","))),
              !.calls = Append(@, "efetch")]

\* "if not id_list: return []", else the fetch call is issued
SearchAfterIds(s, id_list) ==
    IF id_list = <<>>
    THEN [s EXCEPT !.pc = "done", !.id_list = id_list, !.articles = <<>>]
    ELSE [s EXCEPT !.pc = "efetch", !.id_list = id_list,
                   !.fetch_params =
                 BuildParamsFor(s, FetchParams(
                     Join([i \in 1..Len(id_list) |-> <<id_list[i]>>], ","))),
                   !.calls = Append(@, "efetch")]

\* A search_begin that uses up the client's key
search_begin_consumes_key(self, query, max_results) ==
    [SearchIdle EXCEPT
       !.pc = "esearch", !.impl = "async", !.query = query,
       !.self = [self EXCEPT !.api_key = ""],
       !.params = build_params(self, EsearchParams(query, max_results)),
       !.calls = <<"esearch">>]

\* PubMedSearch.search up to its first await: the ID search is issued
search_begin(self, query, max_results) ==
    [SearchIdle EXCEPT
       !.pc = "esearch", !.impl = "async", !.query = query,
       !.self = self,
       !.params = build_params(self, EsearchParams(query, max_results)),
       !.calls = <<"esearch">>]

\* PubMedSearch.search from the ID search's answer to its second await
search_on_ids(s, resp) ==
    IF resp.kind # "json"
    THEN [s EXCEPT !.pc = "raised", !.fault = resp.err, !.raised = resp.err]
    ELSE SearchAfterIds(s, IdListOf(resp.data))

\* PubMedSearch.search from the fetch's answer to its return
search_on_fetch(s, resp) ==
    IF resp.kind # "text"
    THEN [s EXCEPT !.pc = "raised", !.fault = resp.err, !.raised = resp.err]
    ELSE LET parsed == parse_articles(resp.doc)
             s1 == [s EXCEPT !.fetch_response = Some(resp.doc)]
         IN IF parsed.raises # ""
            THEN [s1 EXCEPT !.pc = "raised", !.fault = parsed.raises,
                            !.raised = parsed.raises]
            ELSE [s1 EXCEPT !.pc = "done", !.articles = parsed.articles]

\* PubMedSearch.search_sync, in the same three parts
search_sync_begin(self, query, max_results) ==
    [SearchIdle EXCEPT
       !.pc = "esearch", !.impl = "sync", !.query = query,
       !.self = self,
       !.params = build_params(self, EsearchParams(query, max_results)),
       !.calls = <<"esearch">>]

search_sync_on_ids(s, resp) ==
    IF resp.kind # "json"
    THEN [s EXCEPT !.pc = "raised", !.fault = resp.err, !.raised = resp.err]
    ELSE SearchAfterIds(s, IdListOf(resp.data))

search_sync_on_fetch(s, resp) ==
    IF resp.kind # "text"
    THEN [s EXCEPT !.pc = "raised", !.fault = resp.err, !.raised = resp.err]
    ELSE LET parsed == parse_articles(resp.doc)
             s1 == [s EXCEPT !.fetch_response = Some(resp.doc)]
         IN IF parsed.raises # ""
            THEN [s1 EXCEPT !.pc = "raised", !.fault = parsed.raises,
                            !.raised = parsed.raises]
            ELSE [s1 EXCEPT !.pc = "done", !.articles = parsed.articles]

\* The dashboard's search_pubmed: no API key, and every exception of the
\* two calls and of the parsing ends in "return []"
search_pubmed_begin(self, query, max_results) ==
    [SearchIdle EXCEPT
       !.pc = "esearch", !.impl = "dash", !.query = query,
       !.self = self,
       !.params = EsearchParams(query, max_results),
       !.calls = <<"esearch">>]

search_pubmed_on_ids(s, resp) ==
    IF resp.kind # "json"
    THEN [s EXCEPT !.pc = "done", !.fault = resp.err, !.articles = <<>>]
    ELSE SearchAfterIds(s, IdListOf(resp.data))

search_pubmed_on_fetch(s, resp) ==
    IF resp.kind # "text"
    THEN [s EXCEPT !.pc = "done", !.fault = resp.err, !.articles = <<>>]
    ELSE [s EXCEPT !.pc = "done", !.fetch_response = Some(resp.doc),
                   !.articles = dash_parse_articles(resp.doc).articles]

SearchBegin(impl, self, query, max_results) ==
    CASE impl = "async" -> search_begin(self, query, max_results)
      [] impl = "sync" -> search_sync_begin(self, query, max_results)
      [] OTHER -> search_pubmed_begin(self, query, max_results)

SearchOnIds(s, resp) ==
    CASE s.impl = "async" -> search_on_ids(s, resp)
      [] s.impl = "sync" -> search_sync_on_ids(s, resp)
      [] OTHER -> search_pubmed_on_ids(s, resp)

SearchOnFetch(s, resp) ==
    CASE s.impl = "async" -> search_on_fetch(s, resp)
      [] s.impl = "sync" -> search_sync_on_fetch(s, resp)
      [] OTHER -> search_pubmed_on_fetch(s, resp)

\* ------------------------------------------------------------------------
\* The pipeline on its three delivery surfaces
\* ------------------------------------------------------------------------
Surfaces == {"api", "mcp", "dash"}
Whitespace == {" ", "\n", "\t"}
Chars == {" ", "h"}

\* str.strip() on a sequence of characters
RECURSIVE lstrip(_)
lstrip(text) ==
    IF text = <<>> THEN text
    ELSE IF Head(text) \in Whitespace THEN lstrip(Tail(text))
    ELSE text

RECURSIVE rstrip(_)
rstrip(text) ==
    IF text = <<>> THEN text
    ELSE IF text[Len(text)] \in Whitespace THEN rstrip(SubSeq(text, 1, Len(text) - 1))
    ELSE text

strip(text) == rstrip(lstrip(text))

NoExtracted == [symptoms |-> <<>>, duration |-> "", severity |-> ""]
NoDiagnosis == [conditions |-> <<>>, recommendations |-> <<>>, urgency |-> ""]
NoBody ==
    [symptoms |-> <<>>, duration |-> "", severity |-> "",
     diagnosis |-> NoDiagnosis, summary |-> NoSummary, disclaimer |-> FALSE]
NoOutcome == [kind |-> "", status |-> 0, detail |-> <<>>, body |-> NoBody]

\* An exception in flight: its class, and for HTTPException its status
HTTPException(status, detail) ==
    [type |-> "HTTPException", status |-> status, detail |-> detail]
Exception(message) == [type |-> "Exception", status |-> 0, detail |-> <<message>>]

\* str(e)
StrOf(exc) == exc.detail

\* A request: submitted tells that the pipeline was asked for (the button
\* clicked, the tool called by its name)
RequestIdle ==
    [pc |-> "idle", surface |-> "api", self |-> PubMedClient(""),
     submitted |-> FALSE, text |-> <<>>, extracted |-> NoExtracted, diagnosis |-> NoDiagnosis,
     condition_names |-> <<>>, query |-> <<>>, search |-> SearchIdle,
     articles |-> <<>>, summarizer |-> SummarizerIdle, stages |-> <<>>,
     outcome |-> NoOutcome]

Ended(r, outcome) == [r EXCEPT !.pc = "done", !.outcome = outcome]

\* The except clauses of diagnose() without "except HTTPException: raise"
ApiExceptCatchAll(exc) ==
    [kind |-> "http_error", status |-> 500,
     detail |-> <<"Processing error: ">> \o StrOf(exc), body |-> NoBody]

\* What each surface makes of an exception that leaves the try block
ApiExcept(exc) ==
    IF exc.type = "HTTPException"
    THEN [kind |-> "http_error", status |-> exc.status, detail |-> exc.detail,
          body |-> NoBody]
    ELSE [kind |-> "http_error", status |-> 500,
          detail |-> <<"Processing error: ">> \o StrOf(exc), body |-> NoBody]

McpExcept(exc) ==
    [kind |-> "text", status |-> 0,
     detail |-> <<"Error processing symptoms: ">> \o StrOf(exc), body |-> NoBody]

DashExcept(exc) ==
    [kind |-> "st.error", status |-> 0,
     detail |-> <<"An error occurred: ">> \o StrOf(exc), body |-> NoBody]

Raised(r, stage, exc) ==
    Ended([r EXCEPT !.stages = Append(@, <<stage, "raise">>)],
          CASE r.surface = "api" -> ApiExcept(exc)
            [] r.surface = "mcp" -> McpExcept(exc)
            [] OTHER -> DashExcept(exc))

\* The blank-input test of app.py and mcp_tool.py:
\* "not symptoms or not symptoms.strip()"
IsBlank(text) == text = <<>> \/ strip(text) = <<>>

Called(r, stage) == [r EXCEPT !.stages = Append(@, <<stage, "call">>)]
Returned(r, stage) == [r EXCEPT !.stages = Append(@, <<stage, "ret">>)]

\* diagnose() of app.py up to its first await.  request.symptoms is a str.
api_entry(r, text) ==
    IF IsBlank(text)
    THEN Ended([r EXCEPT !.surface = "api", !.submitted = TRUE, !.text = text],
               ApiExcept(HTTPException(400, <<"Symptoms description is required">>)))
    ELSE Called([r EXCEPT !.surface = "api", !.submitted = TRUE, !.text = text,
                           !.pc = "extract"],
                "extract")

\* call_tool() of mcp_tool.py up to its first await.  arguments holds the
\* "symptoms" key (Some) or not (None).
mcp_entry(r, name, arguments) ==
    LET symptoms_input == IF arguments = None THEN <<>> ELSE arguments[1]
        r1 == [r EXCEPT !.surface = "mcp", !.submitted = (name = "diagnose_symptoms"),
                        !.text = symptoms_input]
    IN IF name # "diagnose_symptoms"
       THEN Ended(r1, [kind |-> "raise ValueError", status |-> 0,
                       detail |-> <<"Unknown tool: ", name>>, body |-> NoBody])
       ELSE IF IsBlank(symptoms_input)
       THEN Ended(r1, [kind |-> "text", status |-> 0,
                       detail |-> <<"Error: Please provide a description of your symptoms.">>,
                       body |-> NoBody])
       ELSE Called([r1 EXCEPT !.pc = "extract"], "extract")

\* One run of the dashboard script up to the extraction call
dash_entry(r, submit_button, symptoms_input) ==
    LET r1 == [r EXCEPT !.surface = "dash", !.submitted = submit_button,
                        !.text = symptoms_input]
    IN IF submit_button /\ symptoms_input # <<>>
       THEN Called([r1 EXCEPT !.pc = "extract"], "extract")
       ELSE IF submit_button /\ symptoms_input = <<>>
       THEN Ended(r1, [kind |-> "st.warning", status |-> 0,
                       detail |-> <<"Please enter your symptoms before clicking 'Get Diagnosis'">>,
                       body |-> NoBody])
       ELSE Ended(r1, [kind |-> "st.info", status |-> 0,
                       detail |-> <<"Enter your symptoms in the text area and click 'Get Diagnosis' to receive an analysis.">>,
                       body |-> NoBody])

\* "if not extracted.symptoms": what each surface answers.  The API raises
\* inside its try block, the tool returns, the dashboard stops the script
\* (st.stop raises a control exception that "except Exception" lets through).
NoSymptomsOutcome(surface) ==
    CASE surface = "api" ->
           ApiExcept(HTTPException(400,
               <<"Could not extract any symptoms from the provided description">>))
      [] surface = "mcp" ->
           [kind |-> "text", status |-> 0,
            detail |-> <<"Could not extract any symptoms from the provided description. Please provide more details about your symptoms.">>,
            body |-> NoBody]
      [] OTHER ->
           [kind |-> "st.error", status |-> 0,
            detail |-> <<"Could not extract any symptoms from the provided description">>,
            body |-> NoBody]

SearchImpl(surface) == IF surface = "dash" THEN "dash" ELSE "async"
SummarizerImpl(surface) == IF surface = "dash" THEN "dash" ELSE "async"

\* The response of each surface once the four stages are through
Finished(r) ==
    LET body == [symptoms |-> r.extracted.symptoms,
                 duration |-> r.extracted.duration,
                 severity |-> r.extracted.severity,
                 diagnosis |-> r.diagnosis,
                 summary |-> r.summarizer.summary,
                 disclaimer |-> TRUE]
        notSpecified(x) == IF x # "" THEN x ELSE "Not specified"
    IN Ended(r,
         CASE r.surface = "api" ->
                [kind |-> "response", status |-> 200, detail |-> <<>>, body |-> body]
           [] r.surface = "mcp" ->
                [kind |-> "text", status |-> 0, detail |-> <<"json.dumps(result)">>,
                 body |-> [body EXCEPT !.duration = notSpecified(@),
                                       !.severity = notSpecified(@)]]
           [] OTHER ->
                [kind |-> "rendered", status |-> 0, detail |-> <<>>, body |-> body])

\* After the extraction answer: the step that forgets the emptiness test
AfterExtractNoCheck(r, extracted) ==
    Called([Returned(r, "extract") EXCEPT !.extracted = extracted, !.pc = "diagnose"],
           "diagnose")

\* After the extraction answer: halt on an empty symptom list, else call
\* the diagnosis stage
AfterExtract(r, extracted) ==
    LET r1 == [Returned(r, "extract") EXCEPT !.extracted = extracted]
    IN IF extracted.symptoms = <<>>
       THEN Ended(r1, NoSymptomsOutcome(r.surface))
       ELSE Called([r1 EXCEPT !.pc = "diagnose"], "diagnose")

\* Step 1 answers and the diagnosis stage is called whatever was extracted
OnExtractNoHalt(r, resp) ==
    IF ~resp.ok THEN Raised(r, "extract", Exception(resp.err))
    ELSE Called([Returned(r, "extract") EXCEPT !.extracted = resp.value,
                                                !.pc = "diagnose"],
                "diagnose")

\* Step 1 answers.  resp = [ok, err, value].
OnExtract(r, resp) ==
    IF ~resp.ok THEN Raised(r, "extract", Exception(resp.err))
    ELSE AfterExtract(r, resp.value)

\* Step 4: the summarizer is called with the articles of the search
AfterSearch(r, articles) ==
    LET r1 == Called([Returned(r, "search") EXCEPT !.articles = articles], "summarize")
        sm == SummarizerBegin(SummarizerImpl(r.surface), articles,
                              r.extracted.symptoms, r.condition_names)
        r2 == [r1 EXCEPT !.summarizer = sm]
    IN IF sm.pc = "done" THEN Finished(Returned(r2, "summarize"))
       ELSE [r2 EXCEPT !.pc = "generate"]

\* Step 2 answers that skips the search and summarizes nothing
OnDiagnoseSkipSearch(r, resp) ==
    IF ~resp.ok THEN Raised(r, "diagnose", Exception(resp.err))
    ELSE LET r1 == [Returned(r, "diagnose") EXCEPT
                      !.diagnosis = resp.value,
                      !.condition_names =
                          [i \in 1..Len(resp.value.conditions) |->
                              resp.value.conditions[i].name]]
             sm == SummarizerBegin(SummarizerImpl(r.surface), <<>>,
                                   r.extracted.symptoms, r1.condition_names)
         IN Finished(Returned(Called([r1 EXCEPT !.summarizer = sm], "summarize"),
                              "summarize"))

\* Step 2 answers: the query is built and the ID search is issued (Step 3)
OnDiagnose(r, resp) ==
    IF ~resp.ok THEN Raised(r, "diagnose", Exception(resp.err))
    ELSE LET names == [i \in 1..Len(resp.value.conditions) |->
                          resp.value.conditions[i].name]
             built == IF r.surface = "dash"
                      THEN dash_build_search_query(r.self, r.extracted.symptoms, Some(names))
                      ELSE build_search_query(r.self, r.extracted.symptoms, Some(names))
             r1 == [Returned(r, "diagnose") EXCEPT
                      !.diagnosis = resp.value,
                      !.condition_names = names,
                      !.query = built.query,
                      !.extracted.symptoms = built.symptoms,
                      !.self = built.self]
         IN Called([r1 EXCEPT
                      !.pc = "esearch",
                      !.search = SearchBegin(SearchImpl(r.surface), built.self,
                                             built.query, DefaultMaxResults)],
                   "search")

\* What follows a step of the search
SearchStepped(r, s) ==
    LET r1 == [r EXCEPT !.search = s]
    IN CASE s.pc = "raised" -> Raised(r1, "search", Exception(s.raised))
         [] s.pc = "done" -> AfterSearch(r1, s.articles)
         [] OTHER -> [r1 EXCEPT !.pc = s.pc]

\* The ID search answers
OnIds(r, resp) == SearchStepped(r, SearchOnIds(r.search, resp))

\* The record fetch answers
OnFetch(r, resp) == SearchStepped(r, SearchOnFetch(r.search, resp))

\* The generation call of the summarizer answers
OnGenerate(r, resp) ==
    LET sm == SummarizerEnd(r.summarizer, resp)
        r1 == [r EXCEPT !.summarizer = sm]
    IN IF sm.pc = "raised" THEN Raised(r1, "summarize", Exception(sm.raised))
       ELSE Finished(Returned(r1, "summarize"))

\* ------------------------------------------------------------------------
\* What the outside world may answer
\* ------------------------------------------------------------------------
Year2020 == <<"2", "0", "2", "0">>

Node(pmid, title, abstract) ==
    [pmid |-> pmid, title |-> title, abstract |-> abstract,
     year |-> Some(Year2020), medline |-> None, authors |-> <<>>]

\* Record nodes that differ in what they hold of id, title and abstract
KeyNodes ==
    {Node(p, t, a) : p \in {None, Some(""), Some("11"), Some("22")},
                     t \in {None, Some(""), Some("T")},
                     a \in {None, Some("A")}}

Malformed == [malformed |-> TRUE, nodes |-> <<>>]
Tree(nodes) == [malformed |-> FALSE, nodes |-> nodes]

\* The text of a MedlineDate element, as PubMed writes a date range
Medline2019 == <<"2", "0", "1", "9", " ", "J", "a", "n", "-", "F", "e", "b">>

\* Complete record nodes that differ in their Year and MedlineDate elements
YearNodes ==
    {[Node(Some("11"), Some("T"), Some("A")) EXCEPT !.year = y, !.medline = m] :
        y \in {None, Some(<<>>), Some(Year2020)},
        m \in {None, Some(<<>>), Some(<<"1", "9">>), Some(Medline2019)}}

\* Author nodes: LastName and Initials absent, empty or filled
AuthorNodes ==
    {[last |-> None, initials |-> Some("X")],
     [last |-> Some(""), initials |-> None],
     [last |-> Some("Doe"), initials |-> None],
     [last |-> Some("Roe"), initials |-> Some("A")],
     [last |-> Some("Poe"), initials |-> Some("")]}

\* Complete record nodes that differ in their author lists
AuthorListNodes ==
    {[Node(Some("11"), Some("T"), Some("A")) EXCEPT !.authors = as] :
        as \in SeqsUpTo(AuthorNodes, MaxAuthors)}

ParseDocs ==
    {Malformed}
    \cup {Tree(ns) : ns \in SeqsUpTo(KeyNodes, MaxRecords)}
    \cup {Tree(ns) : ns \in SeqsUpTo(YearNodes, MaxRecords)}
    \cup {Tree(<<n>>) : n \in AuthorListNodes}

FetchNodes ==
    {Node(Some("11"), Some("T"), Some("A")), Node(Some("22"), Some("T"), None),
     Node(Some("11"), None, Some("A"))}
FetchDocs == {Malformed} \cup {Tree(ns) : ns \in SeqsUpTo(FetchNodes, MaxFetchRecords)}

Ids == {"11", "22"}

IdSearchResponsesOver(ids) ==
    {[kind |-> "transport_error", err |-> e, data |-> None] : e \in ErrorTexts}
    \cup {[kind |-> "not_json", err |-> "Expecting value", data |-> None]}
    \cup {[kind |-> "json", err |-> "", data |-> d] :
            d \in {None, Some(None)}
                  \cup {Some(Some(l)) : l \in SeqsUpTo(ids, MaxIds)}}

IdSearchResponses == IdSearchResponsesOver(Ids)

\* In the pipeline nothing reads the identifiers but the fetch's parameters
PipelineIdSearchResponses == IdSearchResponsesOver({"11"})

FetchResponses ==
    {[kind |-> "transport_error", err |-> e, doc |-> Malformed] : e \in ErrorTexts}
    \cup {[kind |-> "text", err |-> "", doc |-> d] : d \in FetchDocs}

Texts == SeqsUpTo(Chars, MaxTextLen)

ExtractionResponses ==
    {[ok |-> FALSE, err |-> e, value |-> NoExtracted] : e \in ErrorTexts}
    \cup {[ok |-> TRUE, err |-> "",
           value |-> [symptoms |-> syms, duration |-> d[1], severity |-> d[2]]] :
            syms \in SeqsUpTo(SymptomNames, MaxSymptoms),
            d \in {<<"", "">>, <<"3 days", "moderate">>}}

\* What the generation service may write for one condition: probability is
\* None when the field is missing, else Some(the string written)
GeneratedConditions ==
    {[name |-> "flu", probability |-> Some("high"), description |-> "d"],
     [name |-> "cold", probability |-> Some("very likely"), description |-> "d"],
     [name |-> "cold", probability |-> None, description |-> "d"]}

\* Condition as the output parser validates it: "probability: str" is a
\* required field that takes any string
ConditionIsValid(c) == c.probability # None

Condition(c) ==
    [name |-> c.name, probability |-> c.probability[1], description |-> c.description]

\* PydanticOutputParser(pydantic_object=DiagnosisResult) at the end of the
\* chain: the DiagnosisResult, or a validation error that leaves diagnose()
output_parser(generated) ==
    IF \A i \in DOMAIN generated.conditions : ConditionIsValid(generated.conditions[i])
    THEN [ok |-> TRUE, err |-> "",
          value |-> [conditions |-> [i \in DOMAIN generated.conditions |->
                                        Condition(generated.conditions[i])],
                     recommendations |-> generated.recommendations,
                     urgency |-> generated.urgency]]
    ELSE [ok |-> FALSE, err |-> "Failed to parse DiagnosisResult from completion",
          value |-> NoDiagnosis]

GeneratedDiagnoses ==
    {[conditions |-> cs, recommendations |-> <<"rest">>, urgency |-> "routine"] :
        cs \in SeqsUpTo(GeneratedConditions, MaxConditions)}

DiagnosisResponses ==
    {[ok |-> FALSE, err |-> e, value |-> NoDiagnosis] : e \in ErrorTexts}
    \cup {output_parser(g) : g \in GeneratedDiagnoses}

\* ------------------------------------------------------------------------
\* Specification of the pipeline: one request on one surface
\* ------------------------------------------------------------------------
ApiRequest ==
    /\ req.pc = "idle"
    /\ \E text \in Texts : req' = api_entry(req, text)
    /\ UNCHANGED <<qry, prs, summ, srch, conc>>

McpRequest ==
    /\ req.pc = "idle"
    /\ \E name \in {"diagnose_symptoms", "other_tool"},
          arguments \in {None} \cup {Some(t) : t \in Texts} :
         req' = mcp_entry(req, name, arguments)
    /\ UNCHANGED <<qry, prs, summ, srch, conc>>

DashRun ==
    /\ req.pc = "idle"
    /\ \E submit_button \in BOOLEAN, text \in Texts :
         req' = dash_entry(req, submit_button, text)
    /\ UNCHANGED <<qry, prs, summ, srch, conc>>

ExtractAnswers ==
    /\ req.pc = "extract"
    /\ \E resp \in ExtractionResponses : req' = OnExtract(req, resp)
    /\ UNCHANGED <<qry, prs, summ, srch, conc>>

DiagnoseAnswers ==
    /\ req.pc = "diagnose"
    /\ \E resp \in DiagnosisResponses : req' = OnDiagnose(req, resp)
    /\ UNCHANGED <<qry, prs, summ, srch, conc>>

IdSearchAnswers ==
    /\ req.pc = "esearch"
    /\ \E resp \in PipelineIdSearchResponses : req' = OnIds(req, resp)
    /\ UNCHANGED <<qry, prs, summ, srch, conc>>

FetchAnswers ==
    /\ req.pc = "efetch"
    /\ \E resp \in FetchResponses : req' = OnFetch(req, resp)
    /\ UNCHANGED <<qry, prs, summ, srch, conc>>

GenerationAnswers ==
    /\ req.pc = "generate"
    /\ \E resp \in GenerationResponses : req' = OnGenerate(req, resp)
    /\ UNCHANGED <<qry, prs, summ, srch, conc>>

ParseIdle == [pc |-> "off", impl |-> "client", doc |-> Malformed,
              raises |-> "", articles |-> <<>>]
SummaryIdle == [impl |-> "async", input |-> <<>>, s |-> SummarizerIdle]
SearchRunIdle ==
    [ids_answer |-> [kind |-> "none", err |-> "", data |-> None],
     fetch_answer |-> [kind |-> "none", err |-> "", doc |-> Malformed],
     s |-> SearchIdle]

\* The requests in flight on one server process: the module-level client
\* they share, as constructed (client0) and as it is now (client); per
\* request its state, its text and the answers its awaits have received;
\* overlapped tells that a request took a step while another was in flight
ConcIdle ==
    [client0 |-> PubMedClient(""), client |-> PubMedClient(""),
     reqs |-> <<>>, texts |-> <<>>, answers |-> <<>>, overlapped |-> FALSE]

Init ==
    /\ req \in {[RequestIdle EXCEPT !.self = PubMedClient(k)] : k \in ApiKeys}
    /\ qry = QueryIdle
    /\ prs = ParseIdle
    /\ summ = SummaryIdle
    /\ srch = SearchRunIdle
    /\ conc = ConcIdle

Next ==
    \/ ApiRequest
    \/ McpRequest
    \/ DashRun
    \/ ExtractAnswers
    \/ DiagnoseAnswers
    \/ IdSearchAnswers
    \/ FetchAnswers
    \/ GenerationAnswers

Spec == Init /\ [][Next]_vars

\* ------------------------------------------------------------------------
\* Specification of the query builders: inputs drawn, then calls of the
\* builder with other client operations in between
\* ------------------------------------------------------------------------
InitQuery ==
    /\ qry \in QueryInputs
    /\ prs = ParseIdle
    /\ summ = SummaryIdle
    /\ srch = SearchRunIdle
    /\ req = RequestIdle
    /\ conc = ConcIdle

NextQuery ==
    \/ QBuild
    \/ QBuildParams

SpecQuery == InitQuery /\ [][NextQuery]_vars

\* ------------------------------------------------------------------------
\* Specification of the XML parsing: a document drawn, then parsed
\* ------------------------------------------------------------------------
Parsers == {"client", "dash"}

PParse ==
    /\ prs.pc = "ready"
    /\ LET parsed == IF prs.impl = "client" THEN parse_articles(prs.doc)
                     ELSE dash_parse_articles(prs.doc)
       IN prs' = [prs EXCEPT !.pc = "parsed", !.raises = parsed.raises,
                             !.articles = parsed.articles]
    /\ UNCHANGED <<qry, summ, srch, req, conc>>

InitParse ==
    /\ prs \in {[ParseIdle EXCEPT !.pc = "ready", !.impl = i, !.doc = d] :
                  i \in Parsers, d \in ParseDocs}
    /\ qry = QueryIdle
    /\ summ = SummaryIdle
    /\ srch = SearchRunIdle
    /\ req = RequestIdle
    /\ conc = ConcIdle

NextParse == PParse

SpecParse == InitParse /\ [][NextParse]_vars

\* ------------------------------------------------------------------------
\* Specification of the summarizer: a call, then the generation's answer
\* ------------------------------------------------------------------------
SummarizerImpls == {"async", "sync", "dash"}

SummaryArticle(pmid, abstract) ==
    [pmid |-> pmid, title |-> "T", abstract |-> abstract, year |-> Year2020,
     authors |-> <<>>]

SummaryArticles ==
    SeqsUpTo({SummaryArticle(p, a) : p \in Ids, a \in {"", "A"}}, MaxSummaryArticles)

SumCall ==
    /\ summ.s.pc = "off"
    /\ \E impl \in SummarizerImpls, articles \in SummaryArticles :
         summ' = [impl |-> impl, input |-> articles,
                  s |-> SummarizerBegin(impl, articles, <<"fever">>, <<"flu">>)]
    /\ UNCHANGED <<qry, prs, srch, req, conc>>

SumGenerationAnswers ==
    /\ summ.s.pc = "generate"
    /\ \E resp \in GenerationResponses :
         summ' = [summ EXCEPT !.s = SummarizerEnd(summ.s, resp)]
    /\ UNCHANGED <<qry, prs, srch, req, conc>>

InitSummarize ==
    /\ summ = SummaryIdle
    /\ qry = QueryIdle
    /\ prs = ParseIdle
    /\ srch = SearchRunIdle
    /\ req = RequestIdle
    /\ conc = ConcIdle

NextSummarize ==
    \/ SumCall
    \/ SumGenerationAnswers

SpecSummarize == InitSummarize /\ [][NextSummarize]_vars

\* ------------------------------------------------------------------------
\* Specification of the search: a call, the ID search's answer, the fetch's
\* ------------------------------------------------------------------------
SearchImpls == {"async", "sync", "dash"}

SearchCall ==
    /\ srch.s.pc = "off"
    /\ \E impl \in SearchImpls, k \in ApiKeys, q \in {<<"q1">>, <<"q2">>} :
         srch' = [srch EXCEPT !.s = SearchBegin(impl, PubMedClient(k), q,
                                                DefaultMaxResults)]
    /\ UNCHANGED <<qry, prs, summ, req, conc>>

SearchIdsAnswer ==
    /\ srch.s.pc = "esearch"
    /\ \E resp \in IdSearchResponses :
         srch' = [srch EXCEPT !.ids_answer = resp, !.s = SearchOnIds(srch.s, resp)]
    /\ UNCHANGED <<qry, prs, summ, req, conc>>

SearchFetchAnswer ==
    /\ srch.s.pc = "efetch"
    /\ \E resp \in FetchResponses :
         srch' = [srch EXCEPT !.fetch_answer = resp, !.s = SearchOnFetch(srch.s, resp)]
    /\ UNCHANGED <<qry, prs, summ, req, conc>>

InitSearch ==
    /\ srch = SearchRunIdle
    /\ qry = QueryIdle
    /\ prs = ParseIdle
    /\ summ = SummaryIdle
    /\ req = RequestIdle
    /\ conc = ConcIdle

NextSearch ==
    \/ SearchCall
    \/ SearchIdsAnswer
    \/ SearchFetchAnswer

SpecSearch == InitSearch /\ [][NextSearch]_vars

\* ------------------------------------------------------------------------
\* Specification of concurrent requests: the requests of the API server
\* interleave at their awaits and share the module-level client
\* ------------------------------------------------------------------------
Requests == 1..MaxRequests

\* A request resumes with the module-level client as it is now
WithClient(r, client) ==
    [r EXCEPT !.self = client,
              !.search = IF r.search.pc = "off" THEN r.search
                         ELSE [r.search EXCEPT !.self = client]]

\* The state in which a step of a request leaves the client
ClientAfter(r) == IF r.search.pc # "off" THEN r.search.self ELSE r.self

\* The continuation of diagnose() after the await it is suspended at
Resume(r, resp) ==
    CASE r.pc = "extract" -> OnExtract(r, resp)
      [] r.pc = "diagnose" -> OnDiagnose(r, resp)
      [] r.pc = "esearch" -> OnIds(r, resp)
      [] r.pc = "efetch" -> OnFetch(r, resp)
      [] r.pc = "generate" -> OnGenerate(r, resp)
      [] OTHER -> r

InFlight(r) == r.pc \notin {"idle", "done"}

\* Request i takes the step that leaves its state at r
Stepped(i, r) ==
    [conc EXCEPT !.reqs[i] = r,
                 !.client = ClientAfter(r),
                 !.overlapped = @ \/ \E j \in Requests \ {i} : InFlight(conc.reqs[j])]

ConcTexts == {<<"h">>, <<" ">>}

ConcExtractionResponses ==
    {resp \in ExtractionResponses :
        IF resp.ok THEN Len(resp.value.symptoms) <= 1 /\ resp.value.duration = ""
        ELSE resp.err = "timeout"}

ConcDiagnosisResponses ==
    {resp \in DiagnosisResponses :
        IF resp.ok
        THEN Len(resp.value.conditions) = 1 /\ resp.value.conditions[1].name = "flu"
        ELSE resp.err = "timeout"}

ConcIdSearchResponses ==
    {resp \in PipelineIdSearchResponses :
        \/ resp.kind = "transport_error" /\ resp.err = "timeout"
        \/ resp.kind = "json" /\ resp.data \in {Some(Some(<<>>)), Some(Some(<<"11">>))}}

ConcFetchResponses ==
    {resp \in FetchResponses :
        \/ resp.kind = "transport_error" /\ resp.err = "timeout"
        \/ resp.kind = "text" /\ resp.doc = Tree(<<Node(Some("11"), Some("T"), Some("A"))>>)}

ConcGenerationResponses ==
    {resp \in GenerationResponses : resp.ok \/ resp.err = "timeout"}

\* A POST /diagnose arrives
CRequest ==
    /\ \E i \in Requests, text \in ConcTexts :
         /\ conc.reqs[i].pc = "idle"
         /\ conc' = [Stepped(i, api_entry(WithClient(conc.reqs[i], conc.client), text))
                       EXCEPT !.texts[i] = text]
    /\ UNCHANGED <<qry, prs, summ, srch, req>>

\* The await of a request receives its answer and the request runs on to
\* its next await or to its end
Answered(i, resp) ==
    [Stepped(i, Resume(WithClient(conc.reqs[i], conc.client), resp))
       EXCEPT !.answers[i] = Append(@, resp)]

CExtractAnswers ==
    /\ \E i \in Requests, resp \in ConcExtractionResponses :
         /\ conc.reqs[i].pc = "extract"
         /\ conc' = Answered(i, resp)
    /\ UNCHANGED <<qry, prs, summ, srch, req>>

CDiagnoseAnswers ==
    /\ \E i \in Requests, resp \in ConcDiagnosisResponses :
         /\ conc.reqs[i].pc = "diagnose"
         /\ conc' = Answered(i, resp)
    /\ UNCHANGED <<qry, prs, summ, srch, req>>

CIdSearchAnswers ==
    /\ \E i \in Requests, resp \in ConcIdSearchResponses :
         /\ conc.reqs[i].pc = "esearch"
         /\ conc' = Answered(i, resp)
    /\ UNCHANGED <<qry, prs, summ, srch, req>>

CFetchAnswers ==
    /\ \E i \in Requests, resp \in ConcFetchResponses :
         /\ conc.reqs[i].pc = "efetch"
         /\ conc' = Answered(i, resp)
    /\ UNCHANGED <<qry, prs, summ, srch, req>>

CGenerationAnswers ==
    /\ \E i \in Requests, resp \in ConcGenerationResponses :
         /\ conc.reqs[i].pc = "generate"
         /\ conc' = Answered(i, resp)
    /\ UNCHANGED <<qry, prs, summ, srch, req>>

InitConcurrent ==
    /\ conc \in {[ConcIdle EXCEPT
                     !.client0 = PubMedClient(k), !.client = PubMedClient(k),
                     !.reqs = [i \in Requests |-> RequestIdle],
                     !.texts = [i \in Requests |-> <<>>],
                     !.answers = [i \in Requests |-> <<>>]] : k \in ApiKeys}
    /\ qry = QueryIdle
    /\ prs = ParseIdle
    /\ summ = SummaryIdle
    /\ srch = SearchRunIdle
    /\ req = RequestIdle

NextConcurrent ==
    \/ CRequest
    \/ CExtractAnswers
    \/ CDiagnoseAnswers
    \/ CIdSearchAnswers
    \/ CFetchAnswers
    \/ CGenerationAnswers

SpecConcurrent == InitConcurrent /\ [][NextConcurrent]_vars

\* ------------------------------------------------------------------------
\* Properties
\* ------------------------------------------------------------------------
HasEvent(stage, what) ==
    \E i \in DOMAIN req.stages : req.stages[i] = <<stage, what>>

StageOrder == <<"extract", "diagnose", "search", "summarize">>

StageIndex(stage) == CHOOSE k \in DOMAIN StageOrder : StageOrder[k] = stage

\* The answers for "no symptoms could be extracted", as the surfaces word them
IsNoSymptomsOutcome(o, surface) ==
    CASE surface = "api" ->
           /\ o.kind = "http_error"
           /\ o.status = 400
           /\ o.detail = <<"Could not extract any symptoms from the provided description">>
      [] surface = "mcp" ->
           /\ o.kind = "text"
           /\ o.detail = <<"Could not extract any symptoms from the provided description. Please provide more details about your symptoms.">>
      [] OTHER ->
           /\ o.kind = "st.error"
           /\ o.detail = <<"Could not extract any symptoms from the provided description">>

\* C1: once extraction has returned an entity set with no symptoms, the
\* request is over with the "no symptoms" answer, and neither the diagnosis
\* engine, nor the search (no stage call, no HTTP call), nor the summarizer
\* (no stage call, no generation) has been invoked for it.
C1_NoSymptomsHalts ==
    (HasEvent("extract", "ret") /\ req.extracted.symptoms = <<>>) =>
        /\ req.pc = "done"
        /\ IsNoSymptomsOutcome(req.outcome, req.surface)
        /\ req.stages = << <<"extract", "call">>, <<"extract", "ret">> >>
        /\ req.search.calls = <<>>
        /\ req.summarizer.generations = 0

C1_Witness ==
    /\ HasEvent("extract", "ret")
    /\ req.extracted.symptoms = <<>>
    /\ req.pc = "done"
    /\ req.surface = "dash"

\* C2: the stages of a request start in the order extract, diagnose, search,
\* summarize: extraction is the first event, every other stage call directly
\* follows the return of its predecessor, the query exists and the search's
\* HTTP calls are issued only after diagnosis returned, and the generation
\* call of the summarizer only after the search returned.
C2_StagesInOrder ==
    /\ \A i \in DOMAIN req.stages :
         req.stages[i][2] = "call" =>
            LET k == StageIndex(req.stages[i][1])
            IN IF k = 1 THEN i = 1
               ELSE i > 1 /\ req.stages[i - 1] = <<StageOrder[k - 1], "ret">>
    /\ req.query # <<>> => HasEvent("diagnose", "ret")
    /\ req.search.calls # <<>> =>
         HasEvent("diagnose", "ret") /\ HasEvent("search", "call")
    /\ req.summarizer.generations > 0 =>
         HasEvent("search", "ret") /\ HasEvent("summarize", "call")

C2_Witness ==
    /\ req.pc = "done"
    /\ req.stages = << <<"extract", "call">>, <<"extract", "ret">>,
                       <<"diagnose", "call">>, <<"diagnose", "ret">>,
                       <<"search", "call">>, <<"search", "ret">>,
                       <<"summarize", "call">>, <<"summarize", "ret">> >>
    /\ req.search.calls = <<"esearch", "efetch">>
    /\ req.summarizer.generations = 1

\* A stage of the request failed: it raised into the handler, or one of the
\* search's calls raised inside the search
StageFailed ==
    \/ \E i \in DOMAIN req.stages : req.stages[i][2] = "raise"
    \/ req.search.fault # ""

IsFailureOutcome(o) ==
    \/ o.kind = "http_error" /\ o.status = 500
    \/ o.kind = "text" /\ o.detail # <<>> /\ o.detail[1] = "Error processing symptoms: "
    \/ o.kind = "st.error" /\ o.detail # <<>> /\ o.detail[1] = "An error occurred: "

\* The raw text of the request holds something else than whitespace
TextNotBlank == \E i \in DOMAIN req.text : req.text[i] \notin {" ", "\n", "\t"}

\* C3: when a stage fails (in a request with a non-blank text), the request
\* is over with a failure answer and no later stage was invoked (the failing
\* stage's event is the last one); and an answer that carries entities or a
\* diagnosis is given only after the summarizer returned.
C3_FailureAborts ==
    /\ (StageFailed /\ TextNotBlank) =>
         /\ req.pc = "done"
         /\ IsFailureOutcome(req.outcome)
         /\ req.stages[Len(req.stages)][2] = "raise"
    /\ (req.outcome.body.symptoms # <<>> \/ req.outcome.body.diagnosis # NoDiagnosis) =>
         HasEvent("summarize", "ret")

\* The answers for a blank input, as the surfaces word them
IsEmptyInputOutcome(o, surface) ==
    CASE surface = "api" ->
           /\ o.kind = "http_error"
           /\ o.status = 400
           /\ o.detail = <<"Symptoms description is required">>
      [] surface = "mcp" ->
           /\ o.kind = "text"
           /\ o.detail = <<"Error: Please provide a description of your symptoms.">>
      [] OTHER ->
           /\ o.kind = "st.warning"

\* C4: every submitted request whose raw text is empty or all whitespace is
\* rejected with the empty-input answer and no stage was invoked for it, on
\* each of the three surfaces.
C4_BlankRejected ==
    (req.submitted /\ \A i \in DOMAIN req.text : req.text[i] \in {" ", "\n", "\t"}) =>
        /\ req.pc = "done"
        /\ req.stages = <<>>
        /\ IsEmptyInputOutcome(req.outcome, req.surface)

\* The identifiers an ID-search answer carries: none when a key is missing
AnswerIds(answer) ==
    IF answer.data = <<>> THEN <<>>
    ELSE IF answer.data[1] = <<>> THEN <<>>
    ELSE answer.data[1][1]

\* C5: after an ID-search answer with an empty or missing identifier list the
\* search is over with an empty result and only the ID search was issued;
\* and a fetch is in the calls only as the second call, after an ID-search
\* answer with at least one identifier.
C5_NoFetchWithoutIds ==
    /\ (srch.ids_answer.kind = "json" /\ AnswerIds(srch.ids_answer) = <<>>) =>
         /\ srch.s.pc = "done"
         /\ srch.s.articles = <<>>
         /\ srch.s.calls = <<"esearch">>
    /\ (\E i \in DOMAIN srch.s.calls : srch.s.calls[i] = "efetch") =>
         /\ srch.ids_answer.kind = "json"
         /\ AnswerIds(srch.ids_answer) # <<>>
         /\ srch.s.calls = <<"esearch", "efetch">>

C5_Witness ==
    /\ srch.ids_answer.kind = "json"
    /\ srch.ids_answer.data = <<>>
    /\ srch.s.pc = "done"
    /\ srch.s.impl = "sync"

\* C6: summarize on an empty records sequence is over at once with count 0,
\* the fixed non-empty fallback narrative and no references, without a
\* generation call; a generation call is made only for non-empty records.
C6_EmptyRecordsShortCircuit ==
    /\ (summ.s.pc # "off" /\ summ.input = <<>>) =>
         /\ summ.s.pc = "done"
         /\ summ.s.summary.articles_found = 0
         /\ summ.s.summary.summary =
              (IF summ.impl = "dash" THEN "No relevant medical literature found."
               ELSE "No relevant medical literature found for these symptoms.")
         /\ summ.s.summary.summary # ""
         /\ summ.s.summary.references = <<>>
         /\ summ.s.generations = 0
    /\ summ.s.generations > 0 => summ.input # <<>>

C6_Witness ==
    /\ summ.s.pc = "done"
    /\ summ.input = <<>>
    /\ summ.impl = "async"

\* C7: a summary of a non-empty records sequence has one reference per
\* record, in input order, records without abstract included; the count is
\* the number of records and each url is the PubMed address of the record's
\* id.
C7_ReferencesPerRecord ==
    (summ.s.pc = "done" /\ summ.input # <<>>) =>
        LET refs == summ.s.summary.references
        IN /\ summ.s.summary.articles_found = Len(summ.input)
           /\ Len(refs) = Len(summ.input)
           /\ \A i \in DOMAIN summ.input :
                /\ refs[i].pmid = summ.input[i].pmid
                /\ refs[i].title = summ.input[i].title
                /\ refs[i].url = <<"https://pubmed.ncbi.nlm.nih.gov/",
                                   summ.input[i].pmid, "/">>

C7_Witness ==
    /\ summ.s.pc = "done"
    /\ summ.impl = "async"
    /\ summ.s.generations = 1
    /\ Len(summ.input) = 2
    /\ summ.input[1].abstract = ""
    /\ summ.input[2].abstract # ""
    /\ summ.input[1].pmid # summ.input[2].pmid

\* The lists a query is expected to be built from
ExpectedSymptoms == SubSeq(qry.symptoms0, 1, IF Len(qry.symptoms0) < 3
                                             THEN Len(qry.symptoms0) ELSE 3)
ExpectedConditions ==
    IF qry.conditions0 = <<>> THEN <<>>
    ELSE SubSeq(qry.conditions0[1], 1, IF Len(qry.conditions0[1]) < 2
                                       THEN Len(qry.conditions0[1]) ELSE 2)

\* C8: every query built holds, in this order, one quoted title/abstract
\* term per symptom among the first 3 and per condition among the first 2,
\* " OR " between two terms and nothing else, and then the evidence filter
\* as its last piece.
C8_QueryShape ==
    \A c \in DOMAIN qry.results :
        LET q == qry.results[c]
            terms == ExpectedSymptoms \o ExpectedConditions
            n == Len(terms)
        IN /\ Len(q) = (IF n = 0 THEN 0 ELSE 4 * n - 1) + 1
           /\ q[Len(q)] = " AND (review[pt] OR clinical trial[pt] OR meta-analysis[pt])"
           /\ \A i \in 1..n :
                /\ q[4 * i - 3] = "\""
                /\ q[4 * i - 2] = terms[i]
                /\ q[4 * i - 1] = "\"[Title/Abstract]"
                /\ i < n => q[4 * i] = " OR "

C8_Witness ==
    /\ qry.results # <<>>
    /\ Len(qry.symptoms0) = 4
    /\ qry.conditions0 # <<>>
    /\ Len(qry.conditions0[1]) = 3
    /\ qry.impl = "dash"

\* C9: the calls of the query builder made on the same lists, with other
\* client operations in between, all return the same query, and the lists
\* and the client are as they were before the first call.
C9_BuildQueryPure ==
    /\ \A i, j \in DOMAIN qry.results : qry.results[i] = qry.results[j]
    /\ qry.symptoms = qry.symptoms0
    /\ qry.conditions = qry.conditions0
    /\ qry.self = qry.self0

C9_Witness ==
    /\ Len(qry.results) >= 2
    /\ qry.params.api_key # <<>>
    /\ Len(qry.symptoms0) > 3
    /\ qry.conditions0 # <<>>
    /\ qry.impl = "client"

\* A record node holds a non-empty id and a non-empty title
HasIdAndTitle(node) ==
    /\ node.pmid # <<>> /\ node.pmid[1] # ""
    /\ node.title # <<>> /\ node.title[1] # ""

\* C10: parsing a document never raises; its output is, in document order,
\* exactly the record nodes that hold a non-empty id and a non-empty title,
\* so a node lacking either is dropped and the others are kept, and every
\* output record has a non-empty id and a non-empty title.
C10_IncompleteRecordsDropped ==
    prs.pc = "parsed" =>
        LET kept == SelectSeq(prs.doc.nodes, HasIdAndTitle)
        IN /\ prs.raises = ""
           /\ Len(prs.articles) = Len(kept)
           /\ \A i \in DOMAIN prs.articles :
                /\ prs.articles[i].pmid = kept[i].pmid[1]
                /\ prs.articles[i].title = kept[i].title[1]
                /\ prs.articles[i].pmid # ""
                /\ prs.articles[i].title # ""

C10_Witness ==
    /\ prs.pc = "parsed"
    /\ Len(prs.doc.nodes) = 2
    /\ prs.doc.nodes[1].title = <<>>
    /\ prs.doc.nodes[1].pmid = <<"11">>
    /\ HasIdAndTitle(prs.doc.nodes[2])
    /\ Len(prs.articles) = 1
    /\ prs.articles[1].pmid = "22"

\* The year the rule gives for a record node: the Year element's text when
\* the element is there; else the first 4 characters of the MedlineDate
\* element's text; else the empty string
ExpectedYear(node) ==
    IF node.year # <<>> THEN node.year[1]
    ELSE IF node.medline # <<>>
         THEN SubSeq(node.medline[1], 1, Min(4, Len(node.medline[1])))
         ELSE <<>>

\* C11: every parsed record's year is the text of the record's Year element
\* when it has one, else the first 4 characters of its MedlineDate text, else
\* empty, whichever of the two parsers produced the record.
C11_YearFallback ==
    prs.pc = "parsed" =>
        LET kept == SelectSeq(prs.doc.nodes, HasIdAndTitle)
        IN \A i \in DOMAIN prs.articles :
              i \in DOMAIN kept => prs.articles[i].year = ExpectedYear(kept[i])

\* C12: once the fetch has answered with a document that does not parse,
\* the search has returned an empty list without raising, the summarizer was
\* called with it and returned without a generation call, and the request
\* is answered with the result whose summary is the "no literature" one.
C12_MalformedXmlIsEmpty ==
    req.search.fetch_response = <<[malformed |-> TRUE, nodes |-> <<>>]>> =>
        /\ req.search.pc = "done"
        /\ req.search.raised = ""
        /\ req.search.articles = <<>>
        /\ req.articles = <<>>
        /\ req.stages = << <<"extract", "call">>, <<"extract", "ret">>,
                           <<"diagnose", "call">>, <<"diagnose", "ret">>,
                           <<"search", "call">>, <<"search", "ret">>,
                           <<"summarize", "call">>, <<"summarize", "ret">> >>
        /\ req.summarizer.generations = 0
        /\ req.pc = "done"
        /\ req.outcome.kind \in {"response", "text", "rendered"}
        /\ req.outcome.body.symptoms # <<>>
        /\ req.outcome.body.summary.articles_found = 0
        /\ req.outcome.body.summary.references = <<>>
        /\ req.outcome.body.summary.summary =
             (IF req.surface = "dash"
              THEN "No relevant medical literature found."
              ELSE "No relevant medical literature found for these symptoms.")

C12_Witness ==
    /\ req.search.fetch_response = <<[malformed |-> TRUE, nodes |-> <<>>]>>
    /\ req.surface = "api"
    /\ req.pc = "done"
    /\ req.outcome.kind = "response"
    /\ req.outcome.status = 200

\* C13: in a request with a non-blank text, a call of the search that did
\* not deliver its answer (the GET raised, or the ID search's body did not
\* decode) makes the search raise and the
\* request end with a failure, the summarizer never being called, and the
\* search is never over with a result after such a call; the search raises
\* for no other reason; and a search that returned an empty list after
\* calls that all answered has returned normally, the request not ending
\* with a failure for it.
C13_FailureIsNotEmptiness ==
    /\ (req.search.fault # "" /\ TextNotBlank) =>
         /\ req.search.pc = "raised"
         /\ req.search.raised = req.search.fault
         /\ req.pc = "done"
         /\ IsFailureOutcome(req.outcome)
         /\ req.stages[Len(req.stages)] = <<"search", "raise">>
    /\ req.search.pc = "raised" => req.search.fault # ""
    /\ (req.search.pc = "done" /\ req.search.fault = "" /\ req.search.articles = <<>>) =>
         /\ HasEvent("search", "ret")
         /\ ~HasEvent("search", "raise")
         /\ HasEvent("summarize", "call")
         /\ (req.pc = "done" => ~IsFailureOutcome(req.outcome))

\* C14: every condition of the diagnosis a request holds, and of the
\* diagnosis in the answer it gives, has a probability that is one of high,
\* medium, low.
C14_ProbabilityCanonical ==
    /\ \A i \in DOMAIN req.diagnosis.conditions :
          req.diagnosis.conditions[i].probability \in {"high", "medium", "low"}
    /\ \A i \in DOMAIN req.outcome.body.diagnosis.conditions :
          req.outcome.body.diagnosis.conditions[i].probability
              \in {"high", "medium", "low"}

\* C15: a request whose extraction returned with no symptoms is answered
\* with the user-input error of its surface (status 400 on the API, the
\* "provide more details" text of the tool) and not with what the catch-all
\* handler writes; a request whose extraction raised is answered with the
\* catch-all handler's error (status 500 on the API) and not with the
\* no-symptoms one.
C15_NoSymptomsNotFailure ==
    /\ (HasEvent("extract", "ret") /\ req.extracted.symptoms = <<>>) =>
         /\ req.pc = "done"
         /\ ~IsFailureOutcome(req.outcome)
         /\ req.outcome.detail[1] \notin
               {"Processing error: ", "Error processing symptoms: ", "An error occurred: "}
         /\ req.surface = "api" =>
               (req.outcome.kind = "http_error" /\ req.outcome.status = 400)
         /\ req.surface = "mcp" =>
               req.outcome.detail = <<"Could not extract any symptoms from the provided description. Please provide more details about your symptoms.">>
    /\ HasEvent("extract", "raise") =>
         /\ req.pc = "done"
         /\ IsFailureOutcome(req.outcome)
         /\ ~IsNoSymptomsOutcome(req.outcome, req.surface)
         /\ req.surface = "api" =>
               (req.outcome.kind = "http_error" /\ req.outcome.status = 500)

C15_Witness ==
    /\ HasEvent("extract", "ret")
    /\ req.extracted.symptoms = <<>>
    /\ req.surface = "api"
    /\ req.outcome.status = 400
    /\ req.outcome.kind = "http_error"

\* An author node holds a non-empty last name
HasLastName(a) == a.last # <<>> /\ a.last[1] # ""

\* The authors the rule gives for a list of author nodes: the nodes with a
\* last name, in document order, the first 3 of them, each as its last name
\* followed by a space and the initials when it has initials
ExpectedAuthors(authorNodes) ==
    LET named == SelectSeq(authorNodes, HasLastName)
    IN [i \in 1..(IF Len(named) < 3 THEN Len(named) ELSE 3) |->
          IF named[i].initials # <<>> /\ named[i].initials[1] # ""
          THEN <<named[i].last[1], " ", named[i].initials[1]>>
          ELSE <<named[i].last[1]>>]

\* C16: every record parsed by _parse_articles has at most 3 authors, and
\* they are the first 3 of the record's author nodes that hold a last name,
\* in document order, each rendered as last name and optional initials.
C16_AuthorsFirstThreeNamed ==
    (prs.pc = "parsed" /\ prs.impl = "client") =>
        LET kept == SelectSeq(prs.doc.nodes, HasIdAndTitle)
        IN \A i \in DOMAIN prs.articles :
              /\ Len(prs.articles[i].authors) <= 3
              /\ i \in DOMAIN kept =>
                    prs.articles[i].authors = ExpectedAuthors(kept[i].authors)

C16_Witness ==
    /\ prs.pc = "parsed"
    /\ prs.impl = "client"
    /\ Len(prs.articles) = 1
    /\ Len(prs.doc.nodes[1].authors) = 4
    /\ prs.doc.nodes[1].authors[1].last = <<>>
    /\ prs.articles[1].authors = << <<"Doe">>, <<"Roe", " ", "A">>, <<"Poe">> >>

\* C17: a summarizer called with records of which none has an abstract has
\* issued exactly one generation call, whose context is the note "No
\* abstracts available for the found articles."; once the call has answered
\* with a completion, the summary is that completion with one reference
\* per record.
C17_PlaceholderContext ==
    (/\ summ.s.pc # "off"
     /\ summ.input # <<>>
     /\ \A i \in DOMAIN summ.input : summ.input[i].abstract = "") =>
        /\ summ.s.generations = 1
        /\ summ.s.abstracts = <<"No abstracts available for the found articles.">>
        /\ summ.s.pc \in {"generate", "done", "raised"}
        /\ summ.s.pc = "done" =>
              /\ summ.s.summary.summary = "Summary text."
              /\ summ.s.summary.articles_found = Len(summ.input)
              /\ Len(summ.s.summary.references) = Len(summ.input)
              /\ \A i \in DOMAIN summ.input :
                    summ.s.summary.references[i].pmid = summ.input[i].pmid

\* C18: the detail of a failure answer holds no piece that is the raw text
\* of the error the failing stage's provider or transport raised, so that
\* two failures of a stage that differ in that text only are answered alike.
C18_NoRawErrorText ==
    IsFailureOutcome(req.outcome) =>
        \A i \in DOMAIN req.outcome.detail :
            req.outcome.detail[i] \notin {"timeout", "401 invalid key"}

\* What a request is after the answers given, when it runs alone against a
\* client as constructed
RECURSIVE RunAlone(_, _)
RunAlone(r, answers) ==
    IF answers = <<>> THEN r
    ELSE RunAlone(Resume(r, Head(answers)), Tail(answers))

\* C19: whatever the interleaving of the requests at their awaits, the
\* shared client is as it was constructed, and every request that has
\* started is in the state (stage events, calls sent, outcome) that it has
\* when run alone with its text and the answers it received.
C19_RequestsIndependent ==
    /\ conc.client = conc.client0
    /\ \A i \in DOMAIN conc.reqs :
          conc.reqs[i].pc # "idle" =>
             conc.reqs[i] =
                RunAlone(api_entry([RequestIdle EXCEPT !.self = conc.client0],
                                   conc.texts[i]),
                         conc.answers[i])

C19_Witness ==
    /\ conc.overlapped
    /\ conc.client0.api_key = "KEY"
    /\ \A i \in DOMAIN conc.reqs : conc.reqs[i].pc = "done"
    /\ Len(conc.reqs) >= 2
    /\ conc.reqs[1].outcome.status = 200
    /\ conc.reqs[1].outcome.body.symptoms = <<"fever">>
    /\ conc.reqs[1].outcome.body.summary.articles_found = 1
    /\ conc.reqs[2].outcome.status = 200
    /\ conc.reqs[2].outcome.body.symptoms = <<"cough">>
    /\ conc.reqs[2].outcome.body.summary.articles_found = 0

\* C20: a query built by one of the two builders is the query the other
\* builder returns for the same symptoms and conditions, conditions absent
\* or empty included.
C20_BuildersEquivalent ==
    \A k \in DOMAIN qry.results :
        qry.results[k] =
            (IF qry.impl = "client"
             THEN dash_build_search_query(qry.self0, qry.symptoms0, qry.conditions0)
             ELSE build_search_query(qry.self0, qry.symptoms0, qry.conditions0)).query

C20_Witness ==
    /\ qry.impl = "dash"
    /\ qry.results # <<>>
    /\ Len(qry.symptoms0) > 3
    /\ qry.conditions0 # <<>>
    /\ Len(qry.conditions0[1]) > 2

\* C21: whenever the search stage has been invoked, the request holds at
\* least one symptom and the query handed to the search (and sent as the
\* term of the ID search) begins with the quoted term of the first symptom
\* and ends with the evidence filter, so it never begins with the filter;
\* while the builder called with no symptoms and no conditions (None or an
\* empty list) returns the filter alone.
C21_QueryHasSymptomTerm ==
    /\ HasEvent("search", "call") =>
         /\ req.extracted.symptoms # <<>>
         /\ req.search.query = req.query
         /\ req.search.params.term = req.query
         /\ Len(req.query) >= 4
         /\ req.query[1] # " AND (review[pt] OR clinical trial[pt] OR meta-analysis[pt])"
         /\ SubSeq(req.query, 1, 3) =
               <<"\"", req.extracted.symptoms[1], "\"[Title/Abstract]">>
         /\ req.query[Len(req.query)] =
               " AND (review[pt] OR clinical trial[pt] OR meta-analysis[pt])"
    /\ \A conditions \in {<<>>, << <<>> >>} :
         build_search_query(req.self, <<>>, conditions).query =
            <<" AND (review[pt] OR clinical trial[pt] OR meta-analysis[pt])">>
    /\ (qry.results # <<>> /\ qry.symptoms0 = <<>>
          /\ qry.conditions0 \in {<<>>, << <<>> >>}) =>
         \A k \in DOMAIN qry.results :
            qry.results[k] =
               <<" AND (review[pt] OR clinical trial[pt] OR meta-analysis[pt])">>

C21_Witness ==
    /\ HasEvent("search", "call")
    /\ req.surface = "mcp"
    /\ Len(req.extracted.symptoms) = 1
    /\ req.condition_names = <<>>
    /\ Len(req.query) = 4
    /\ req.search.calls # <<>>

====
